---- MODULE Spec2Model ----
(***************************************************************************)
(* A model of the content-generation pipeline of NewAutoContent:           *)
(* VideoPipeline.run (src/pipeline/pipeline.py) sequencing narration,      *)
(* captioning and rendering under run_with_timeout                         *)
(* (src/pipeline/helpers.py), the session files it writes, and the         *)
(* process-wide "pipeline" logger (src/pipeline/logger.py).                *)
(*                                                                         *)
(* One process performs up to MaxRuns runs one after the other, as the     *)
(* batch loop of src/cli.py and the GUI front-ends do.  A stage call runs  *)
(* on a thread of its own; a call that outlives step_timeout is abandoned  *)
(* and keeps running.                                                      *)
(***************************************************************************)
EXTENDS Integers, Sequences, FiniteSets, TLC

\* Bounds of the model.
MaxRuns == 2
NumDirs == 2
MaxLeaked == 1

Runs == 1..MaxRuns
Dirs == 1..NumDirs

Stages == {"narration", "transcribe", "generate_ass", "render"}

\* The files of one session directory.
FileNames ==
    {"voice.wav", "subtitles.ass", "final_video.mp4", "script.txt",
     "metadata.json", "run_summary.json", "summary.txt",
     "session_config.json", "error_trace.txt", "archive.zip"}

\* A file is recorded by the run that wrote it last and by what it holds.
Absent == [by |-> 0, kind |-> "absent"]
File(r, k) == [by |-> r, kind |-> k]
Exists(f) == f.kind # "absent"
\* path.exists() and path.stat().st_size > 0
NonEmpty(f) == f.kind \notin {"absent", "empty"}

EmptyDir == [n \in FileNames |-> Absent]

\* What a call leaves to run_with_timeout: a return value or an exception.
Value(v) == [kind |-> "value", val |-> v]
Exc(e) == [kind |-> "exc", val |-> e]
NoResult == [kind |-> "none", val |-> "none"]

\* script_text is "" when the script is empty after trimming.
Texts == {"", "script"}

NoArgs ==
    [dir |-> 0, script_text |-> "", no_subtitles |-> FALSE, whisper_disable |-> FALSE,
     intro |-> FALSE]

VARIABLES
    developer_mode, \* config.developer_mode
    whisper,        \* whether `import whisper` works in this process
    runNo,          \* number of runs started in this process
    args,           \* the arguments of the current run
    runDir,         \* run -> its output directory (0: not started)
    pc,             \* where the orchestrator of the current run stands
    fs,             \* dir -> file name -> file
    handlers,       \* the session logs the "pipeline" logger has a FileHandler for
    logs,           \* dir -> the runs with records in that dir's pipeline.log
    threads,        \* the stage calls still executing
    result,         \* what the call being waited for left behind
    words,          \* the segments handed to generate_ass
    err,            \* the exception caught by the outer handler of run
    \* history of the current run
    invoked,        \* the stage calls made, in order
    seen,           \* stage -> what run_with_timeout gave the orchestrator
    ended,          \* stage -> how the orchestrator saw the step end
    handled,        \* stage -> what the orchestrator did about it
    joinAlive,      \* stage -> whether the call was still executing when the wait ended
    verified        \* the files the orchestrator checked to exist with non-zero size

\* One call of VoiceOverGenerator.generate, taken step by step.
VARIABLES
    voice,          \* the generator: engine, force_coqui, api_key, voice_id; the text given
    vpc,            \* where the call stands
    attempt,        \* the loop variable of _generate_elevenlabs
    provider_calls, \* the calls made to the remote and the local provider, in order
    output_path,    \* what is at the destination of the audio
    returned        \* what generate returned ("none": still executing)

pvars == <<developer_mode, whisper, runNo, args, runDir, pc, fs, handlers, logs, threads, result,
           words, err, invoked, seen, ended, handled, joinAlive, verified>>

vovars == <<voice, vpc, attempt, provider_calls, output_path, returned>>

\* A SubtitleGenerator followed through generate_ass and _format_time.
VARIABLES
    style,          \* self.style
    segments,       \* the words given to the last generate_ass call
    ass_path,       \* the caption file: whether it exists, its Dialogue lines
    ass_calls,      \* generate_ass calls made so far
    seconds,        \* the time given to _format_time, in hundredths
    stamp           \* what _format_time returned (<<>>: not called yet)

capvars == <<style, segments, ass_path, ass_calls, seconds, stamp>>

\* One call of VideoRenderer._resolve_folder.
VARIABLES
    folder,         \* the name of the requested background folder
    root,           \* its parent: whether it exists, and its folders as iterdir lists them
    subdirs,        \* for each subfolder of the requested folder, whether it holds videos
    bg_folder       \* self.bg_folder: what _resolve_folder returned, or what it raised

resvars == <<folder, root, subdirs, bg_folder>>

\* One call of VideoRenderer.render, taken step by step.
VARIABLES
    render_args,    \* the renderer and the arguments of the call, and what is on disk
    rpc,            \* where the call stands
    cmd,            \* the command of the main pass, once built
    processes,      \* the external processes started, in order
    out_files,      \* the destination, _main.mp4 and concat.txt
    rendered        \* "returned", or the exception raised ("none": still executing)

rendvars == <<render_args, rpc, cmd, processes, out_files, rendered>>

\* what the other components' variables are while the pipeline is followed
aux == <<vovars, capvars, resvars, rendvars>>

vars == <<pvars, aux>>

hist == <<invoked, seen, ended, handled, joinAlive, verified>>

dir == args.dir
\* A stage call on its thread: the run and stage it belongs to, the words
\* handed to generate_ass, the directory and the intro/outro it was given,
\* and whether run_with_timeout gave up waiting for it.
Thread(r, s, a) ==
    [run |-> r, stage |-> s, arg |-> a, dir |-> args.dir, intro |-> args.intro,
     abandoned |-> FALSE]

NoHist == [s \in Stages |-> "no"]

\* no run has started
PipelineInit ==
    /\ developer_mode \in BOOLEAN
    /\ whisper \in BOOLEAN
    /\ runNo = 0
    /\ args = NoArgs
    /\ runDir = [r \in Runs |-> 0]
    /\ pc = "idle"
    /\ fs = [d \in Dirs |-> EmptyDir]
    /\ handlers = {}
    /\ logs = [d \in Dirs |-> {}]
    /\ threads = {}
    /\ result = NoResult
    /\ words = "none"
    /\ err = "none"
    /\ invoked = <<>>
    /\ seen = [s \in Stages |-> NoResult]
    /\ ended = NoHist
    /\ handled = NoHist
    /\ joinAlive = [s \in Stages |-> FALSE]
    /\ verified = {}

NoVoice ==
    [text |-> "", engine |-> "coqui", force_coqui |-> FALSE, api_key |-> FALSE,
     voice_id |-> FALSE, requests |-> FALSE]

\* no generate call is followed step by step
VoiceIdle ==
    /\ voice = NoVoice
    /\ vpc = "idle"
    /\ attempt = 0
    /\ provider_calls = <<>>
    /\ output_path = "absent"
    /\ returned = "none"

\* no caption file, no time formatted, no generate_ass call made
NoFile == [exists |-> FALSE, events |-> <<>>]
NoStamp == <<>>

CaptionIdle ==
    /\ style = "simple"
    /\ segments = <<>>
    /\ ass_path = NoFile
    /\ ass_calls = 0
    /\ seconds = 0
    /\ stamp = NoStamp

\* _resolve_folder not called
NoRoot == [exists |-> FALSE, listing |-> <<>>]
NotResolved == [kind |-> "none", where |-> "none", name |-> "none"]

ResolveIdle ==
    /\ folder = "none"
    /\ root = NoRoot
    /\ subdirs = <<>>
    /\ bg_folder = NotResolved

\* render not called
NoRenderArgs ==
    [audio |-> "missing", subtitles |-> "none", intro |-> "none", outro |-> "none",
     output |-> "final_video.mp4", watermark |-> FALSE, crop_safe |-> FALSE, overlay_text |-> <<>>,
     sep |-> "/", ffmpeg |-> <<"ffmpeg">>, videos |-> FALSE]
NoOutFiles == [dest |-> "absent", main |-> "absent", concat |-> "absent"]

RenderIdle ==
    /\ render_args = NoRenderArgs
    /\ rpc = "idle"
    /\ cmd = <<>>
    /\ processes = <<>>
    /\ out_files = NoOutFiles
    /\ rendered = "none"

Init == PipelineInit /\ VoiceIdle /\ CaptionIdle /\ ResolveIdle /\ RenderIdle

----------------------------------------------------------------------------
\* helpers.py

\* run_with_timeout with the is_alive() test dropped: a call that is still
\* executing is taken to have returned None.
run_with_timeout_no_raise(alive, res) ==
    IF alive THEN Value("None") ELSE res

\* run_with_timeout without the join: whatever the call has left so far is
\* handed back at once.
run_with_timeout_no_join(alive, res) == res

\* run_with_timeout: after thread.join(timeout), a thread that is still alive
\* makes it raise TimeoutError; otherwise the call's exception is raised again
\* or its value returned.
run_with_timeout(alive, res) ==
    IF alive THEN Exc("TimeoutError") ELSE res

\* create_silence: a one-second silent WAV at the path.
create_silence(df, r) == [df EXCEPT !["voice.wav"] = File(r, "silence")]

\* create_dummy_subtitles: a caption file with one placeholder event.
create_dummy_subtitles(df, r) == [df EXCEPT !["subtitles.ass"] = File(r, "dummy")]

\* PipelineContext.__post_init__: the script backup is written unless it exists.
post_init(df, r) ==
    IF Exists(df["script.txt"]) THEN df
    ELSE [df EXCEPT !["script.txt"] = File(r, "script")]

save_metadata(df, r, status) == [df EXCEPT !["metadata.json"] = File(r, status)]
write_summary(df, r) == [df EXCEPT !["summary.txt"] = File(r, "summary")]
archive(df, r) == [df EXCEPT !["archive.zip"] = File(r, "zip")]
write_error_trace(df, r) == [df EXCEPT !["error_trace.txt"] = File(r, "trace")]
save_config_snapshot(df, r) == [df EXCEPT !["session_config.json"] = File(r, "config")]

----------------------------------------------------------------------------
\* logger.py

\* setup_logger(name, log_file): the logger of that name is process-wide; a
\* FileHandler for log_file is added unless it has one, and none is removed.
setup_logger(hs, d) == hs \cup {d}

\* A record logged by run r reaches every FileHandler of the logger.
Emit(lg, hs, r) == [d \in Dirs |-> IF d \in hs THEN lg[d] \cup {r} ELSE lg[d]]

----------------------------------------------------------------------------
\* The stage calls, as the orchestrator's thread sees them end: what each
\* leaves in the session directory df and what it returns or raises.

Outcome(df, res) == [files |-> df, res |-> res]

\* VoiceOverGenerator.generate(text, output_path): False at once, with nothing
\* written, when the text is empty after trimming; otherwise True only after
\* the audio was written non-empty; False when nothing usable was written (no
\* engine available, an empty response); an exception when the directory
\* cannot be prepared.
generate(df, r, text) ==
    IF text = ""
    THEN { Outcome(df, Value("False")) }
    ELSE { Outcome([df EXCEPT !["voice.wav"] = File(r, "speech")], Value("True")),
           Outcome([df EXCEPT !["voice.wav"] = File(r, "empty")], Value("False")),
           Outcome(df, Value("False")),
           Outcome(df, Exc("OSError")) }

\* transcribe with `return []` after the failed import replaced by `raise`.
transcribe_import_raises(df, r, importable) ==
    IF ~NonEmpty(df["voice.wav"])
    THEN { Outcome(df, Value("empty")) }
    ELSE IF ~importable
    THEN { Outcome(df, Exc("ImportError")) }
    ELSE { Outcome(df, Value("empty")),
           Outcome(df, Value("some")),
           Outcome(df, Exc("WhisperError")) }

\* SubtitleGenerator.transcribe(audio_path): [] when the audio is missing or
\* empty or whisper cannot be imported; otherwise the segments whisper finds
\* (possibly none), or the exception whisper raises.
transcribe(df, r, importable) ==
    IF ~NonEmpty(df["voice.wav"]) \/ ~importable
    THEN { Outcome(df, Value("empty")) }
    ELSE { Outcome(df, Value("empty")),
           Outcome(df, Value("some")),
           Outcome(df, Exc("WhisperError")) }

\* SubtitleGenerator.generate_ass(words, output_path): the placeholder file
\* when there are no words, else header and one Dialogue line per word; a
\* malformed segment raises after the header was written.
generate_ass(df, r, ws) ==
    IF ws # "some"
    THEN { Outcome(create_dummy_subtitles(df, r), Value("None")),
           Outcome(df, Exc("OSError")) }
    ELSE { Outcome([df EXCEPT !["subtitles.ass"] = File(r, "ass")], Value("None")),
           Outcome([df EXCEPT !["subtitles.ass"] = File(r, "empty")], Exc("KeyError")),
           Outcome(df, Exc("OSError")) }

\* One subprocess.run of ffmpeg writing `target`: a non-zero exit, or a zero
\* exit that left the target written, empty, or untouched.
ffmpeg_run(df, target, r) ==
    { [files |-> df, rc |-> 1],
      [files |-> [df EXCEPT ![target] = File(r, "video")], rc |-> 0],
      [files |-> [df EXCEPT ![target] = File(r, "empty")], rc |-> 0],
      [files |-> df, rc |-> 0] }

\* The second pass of VideoRenderer.render: concat.txt is written, ffmpeg
\* concatenates into the destination (check=True), then _main.mp4 and
\* concat.txt are unlinked.  The destination is not looked at afterwards.
concat_pass(df, r) ==
    { IF c.rc # 0
      THEN Outcome(c.files, Exc("CalledProcessError"))
      ELSE Outcome(c.files, Value("None"))
      : c \in ffmpeg_run(df, "final_video.mp4", r) }

\* The main pass of VideoRenderer.render and what follows it.  With an
\* intro or outro the main pass writes _main.mp4 beside the destination; the
\* session files kept here are then touched by the second pass only.
main_pass(df, r, intro) ==
    IF intro
    THEN { Outcome(df, Exc("CalledProcessError")), Outcome(df, Exc("RuntimeError")) }
         \cup concat_pass(df, r)
    ELSE { IF m.rc # 0 THEN Outcome(m.files, Exc("CalledProcessError"))
           ELSE IF ~NonEmpty(m.files["final_video.mp4"])
           THEN Outcome(m.files, Exc("RuntimeError"))
           ELSE Outcome(m.files, Value("None"))
           : m \in ffmpeg_run(df, "final_video.mp4", r) }

\* VideoRenderer.render(audio_path, subtitles, output_path, intro, outro):
\* the audio must exist, a given intro or outro must exist, the destination
\* must end in .mp4 and the audio must open as a WAV; then the passes run.
\* A missing caption file only drops the captions from the command.
render(df, r, intro) ==
    LET audio == df["voice.wav"]
    IN  IF ~Exists(audio)
        THEN { Outcome(df, Exc("FileNotFoundError")) }
        ELSE (IF intro THEN { Outcome(df, Exc("FileNotFoundError")) } ELSE {})
             \cup { Outcome(df, Exc("ValueError")) }
             \cup (IF audio.kind \in {"empty", "speech"}
                   THEN { Outcome(df, Exc("WaveError")) } ELSE {})
             \cup (IF audio.kind # "empty" THEN main_pass(df, r, intro) ELSE {})

Outcomes(t, df) ==
    CASE t.stage = "narration"    -> generate(df, t.run, t.arg)
      [] t.stage = "transcribe"   -> transcribe(df, t.run, whisper)
      [] t.stage = "generate_ass" -> generate_ass(df, t.run, t.arg)
      [] t.stage = "render"       -> render(df, t.run, t.intro)

WaitPc(s) ==
    CASE s = "narration"    -> "narr_wait"
      [] s = "transcribe"   -> "transcribe_wait"
      [] s = "generate_ass" -> "ass_wait"
      [] s = "render"       -> "render_wait"

\* the call of the current run the orchestrator is blocked on
IsWaited(t) == t.run = runNo /\ pc = WaitPc(t.stage) /\ ~t.abandoned

\* A stage call runs to its end on its own thread (helpers.py target()),
\* whether the orchestrator still waits for it or has abandoned it.
StageWork ==
    \E t \in threads :
        \E o \in Outcomes(t, fs[t.dir]) :
            /\ fs' = [fs EXCEPT ![t.dir] = o.files]
            /\ threads' = threads \ {t}
            /\ result' = IF IsWaited(t) THEN o.res ELSE result
            /\ UNCHANGED <<aux, developer_mode, whisper, runNo, args, runDir, pc, handlers, logs,
                           words, err, hist>>

----------------------------------------------------------------------------
\* VideoPipeline.run

\* whether the call the orchestrator is blocked on is still executing
\* (thread.is_alive() after thread.join(timeout))
Alive(s) == \E t \in threads : t.stage = s /\ IsWaited(t)

\* the calls nobody waits for any more
Abandoned == {t \in threads : ~IsWaited(t)}
CanTimeout == Cardinality(Abandoned) < MaxLeaked

\* The voiceover handler without its `else: raise`.
narration_always_substitute(dev) == "substitute"

\* `except Exception` around the voiceover step: silence in developer mode,
\* else the exception goes on to the outer handler.
narration_recovery(dev) == IF dev THEN "substitute" ELSE "terminal"

\* `except Exception` around the subtitle step: dummy subtitles in developer
\* mode, else the exception goes on to the outer handler.
subtitle_recovery(dev) == IF dev THEN "substitute" ELSE "terminal"

\* The render call stands directly in the outer try: every exception ends the run.
render_recovery(dev) == "terminal"

\* The test on no_subtitles the wrong way round.
captions_inverted(no_subtitles) == no_subtitles

\* `if not no_subtitles:` the subtitle step runs unless captions are disabled.
captions_enabled(no_subtitles) == ~no_subtitles

\* trim_silence_ffmpeg replaces the audio by its trimmed copy only when that
\* copy exists and is non-empty, and run swallows its failure: whether
\* voice.wav exists and is non-empty stays as it was.
trim_silence_ffmpeg(df) == df

How(obs) ==
    IF obs.kind # "exc" THEN "ok"
    ELSE IF obs.val = "TimeoutError" THEN "timeout" ELSE "exc"

\* The threads after the wait for stage s ended: a call given up with a
\* TimeoutError is marked abandoned; nothing stops it.
Abandon(alive, obs, s) ==
    IF alive /\ obs = Exc("TimeoutError")
    THEN { IF IsWaited(t) /\ t.stage = s THEN [t EXCEPT !.abandoned = TRUE] ELSE t
           : t \in threads }
    ELSE threads

\* run(...) up to `try:`: the arguments, the output directory, the context
\* (which creates the directory and backs the script up), the session log.
StartRun ==
    /\ pc \in {"idle", "returned", "raised"}
    /\ runNo < MaxRuns
    /\ \E d \in Dirs, txt \in Texts, ns \in BOOLEAN, wd \in BOOLEAN, io \in BOOLEAN :
        /\ d <= 1 + Cardinality({runDir[r] : r \in 1..runNo})
        /\ args' = [dir |-> d, script_text |-> txt, no_subtitles |-> ns,
                    whisper_disable |-> wd, intro |-> io]
        /\ runDir' = [runDir EXCEPT ![runNo + 1] = d]
        /\ fs' = [fs EXCEPT ![d] = post_init(@, runNo + 1)]
        /\ handlers' = setup_logger(handlers, d)
        /\ logs' = Emit(logs, setup_logger(handlers, d), runNo + 1)
    /\ runNo' = runNo + 1
    /\ pc' = "narr_invoke"
    /\ result' = NoResult
    /\ words' = "none"
    /\ err' = "none"
    /\ invoked' = <<>>
    /\ seen' = [s \in Stages |-> NoResult]
    /\ ended' = NoHist
    /\ handled' = NoHist
    /\ joinAlive' = [s \in Stages |-> FALSE]
    /\ verified' = {}
    /\ UNCHANGED <<aux, developer_mode, whisper, threads>>

\* run_with_timeout(lambda: voice.generate(...)): thread.start()
InvokeNarration ==
    /\ pc = "narr_invoke"
    /\ threads' = threads \cup {Thread(runNo, "narration", args.script_text)}
    /\ invoked' = Append(invoked, "narration")
    /\ result' = NoResult
    /\ pc' = "narr_wait"
    /\ UNCHANGED <<aux, developer_mode, whisper, runNo, args, runDir, fs, handlers, logs, words, err,
                   seen, ended, handled, joinAlive, verified>>

\* The wait for the voiceover call ends; the audio file is checked; a failure
\* is recovered or passed on.
JoinNarration ==
    /\ pc = "narr_wait"
    /\ LET alive == Alive("narration")
           obs == run_with_timeout(alive, result)
           invalid == obs.kind # "exc" /\ ~NonEmpty(fs[dir]["voice.wav"])
           e == IF obs.kind = "exc" THEN obs.val
                ELSE IF invalid THEN "RuntimeError" ELSE "none"
           h == IF e = "none" THEN "continue" ELSE narration_recovery(developer_mode)
       IN  /\ alive => CanTimeout
           /\ threads' = Abandon(alive, obs, "narration")
           /\ joinAlive' = [joinAlive EXCEPT !["narration"] = alive]
           /\ seen' = [seen EXCEPT !["narration"] = obs]
           /\ ended' = [ended EXCEPT !["narration"] = IF invalid THEN "invalid" ELSE How(obs)]
           /\ handled' = [handled EXCEPT !["narration"] = h]
           /\ verified' = IF e = "none" THEN verified \cup {"voice.wav"} ELSE verified
           /\ fs' = IF h = "substitute"
                    THEN [fs EXCEPT ![dir] = create_silence(@, runNo)] ELSE fs
           /\ err' = IF h = "terminal" THEN e ELSE err
           /\ pc' = IF h = "terminal" THEN "failed" ELSE "trim"
    /\ result' = NoResult
    /\ UNCHANGED <<aux, developer_mode, whisper, runNo, args, runDir, handlers, logs, words, invoked>>

\* `if trim_silence:` with its own try/except
TrimSilence ==
    /\ pc = "trim"
    /\ \E trim_silence \in BOOLEAN :
        fs' = IF trim_silence THEN [fs EXCEPT ![dir] = trim_silence_ffmpeg(@)] ELSE fs
    /\ pc' = "captions"
    /\ UNCHANGED <<aux, developer_mode, whisper, runNo, args, runDir, handlers, logs, threads, result,
                   words, err, hist>>

\* The head of the subtitle step: captions disabled (an empty subtitles.ass
\* is written), whisper disabled (one segment per word of the script), or
\* the transcribe call is started.
Captions ==
    /\ pc = "captions"
    /\ LET a == args
       IN  IF ~captions_enabled(a.no_subtitles)
           THEN /\ fs' = [fs EXCEPT ![dir]["subtitles.ass"] = File(runNo, "empty")]
                /\ pc' = "render_init"
                /\ UNCHANGED <<threads, words, invoked>>
           ELSE IF a.whisper_disable
           THEN /\ words' = IF a.script_text = "" THEN "empty" ELSE "some"
                /\ pc' = "ass_invoke"
                /\ UNCHANGED <<fs, threads, invoked>>
           ELSE /\ threads' = threads \cup {Thread(runNo, "transcribe", "-")}
                /\ invoked' = Append(invoked, "transcribe")
                /\ pc' = "transcribe_wait"
                /\ UNCHANGED <<fs, words>>
    /\ result' = NoResult
    /\ UNCHANGED <<aux, developer_mode, whisper, runNo, args, runDir, handlers, logs, err,
                   seen, ended, handled, joinAlive, verified>>

\* What the subtitle step's `except Exception` does with exception e of call s.
SubtitleFailure(s, e, h) ==
    /\ fs' = IF h = "substitute"
             THEN [fs EXCEPT ![dir] = create_dummy_subtitles(@, runNo)] ELSE fs
    /\ err' = IF h = "terminal" THEN e ELSE err
    /\ pc' = IF h = "terminal" THEN "failed" ELSE "render_init"

\* The wait for transcribe ends.
JoinTranscribe ==
    /\ pc = "transcribe_wait"
    /\ LET alive == Alive("transcribe")
           obs == run_with_timeout(alive, result)
           h == IF obs.kind # "exc" THEN "continue" ELSE subtitle_recovery(developer_mode)
       IN  /\ alive => CanTimeout
           /\ threads' = Abandon(alive, obs, "transcribe")
           /\ joinAlive' = [joinAlive EXCEPT !["transcribe"] = alive]
           /\ seen' = [seen EXCEPT !["transcribe"] = obs]
           /\ ended' = [ended EXCEPT !["transcribe"] = How(obs)]
           /\ handled' = [handled EXCEPT !["transcribe"] = h]
           /\ IF h = "continue"
              THEN /\ words' = obs.val
                   /\ pc' = "ass_invoke"
                   /\ UNCHANGED <<fs, err>>
              ELSE /\ SubtitleFailure("transcribe", obs.val, h)
                   /\ UNCHANGED words
    /\ result' = NoResult
    /\ UNCHANGED <<aux, developer_mode, whisper, runNo, args, runDir, handlers, logs, invoked, verified>>

\* run_with_timeout(subs.generate_ass, ...): thread.start()
InvokeGenerateAss ==
    /\ pc = "ass_invoke"
    /\ threads' = threads \cup {Thread(runNo, "generate_ass", words)}
    /\ invoked' = Append(invoked, "generate_ass")
    /\ result' = NoResult
    /\ pc' = "ass_wait"
    /\ UNCHANGED <<aux, developer_mode, whisper, runNo, args, runDir, fs, handlers, logs, words, err,
                   seen, ended, handled, joinAlive, verified>>

\* The wait for generate_ass ends.
JoinGenerateAss ==
    /\ pc = "ass_wait"
    /\ LET alive == Alive("generate_ass")
           obs == run_with_timeout(alive, result)
           h == IF obs.kind # "exc" THEN "continue" ELSE subtitle_recovery(developer_mode)
       IN  /\ alive => CanTimeout
           /\ threads' = Abandon(alive, obs, "generate_ass")
           /\ joinAlive' = [joinAlive EXCEPT !["generate_ass"] = alive]
           /\ seen' = [seen EXCEPT !["generate_ass"] = obs]
           /\ ended' = [ended EXCEPT !["generate_ass"] = How(obs)]
           /\ handled' = [handled EXCEPT !["generate_ass"] = h]
           /\ IF h = "continue"
              THEN /\ pc' = "render_init"
                   /\ UNCHANGED <<fs, err>>
              ELSE SubtitleFailure("generate_ass", obs.val, h)
    /\ result' = NoResult
    /\ UNCHANGED <<aux, developer_mode, whisper, runNo, args, runDir, handlers, logs, words,
                   invoked, verified>>

\* VideoRenderer(...) resolves the background folder, which raises when no
\* folder with videos is found; then run_with_timeout(renderer.render, ...)
\* with the caption path, or None when captions are disabled.
InvokeRender ==
    /\ pc = "render_init"
    /\ \E resolved \in BOOLEAN :
        IF resolved
        THEN /\ threads' = threads \cup {Thread(runNo, "render", IF args.no_subtitles THEN "None" ELSE "subtitles.ass")}
             /\ invoked' = Append(invoked, "render")
             /\ pc' = "render_wait"
             /\ UNCHANGED err
        ELSE /\ err' = "FileNotFoundError"
             /\ pc' = "failed"
             /\ UNCHANGED <<threads, invoked>>
    /\ result' = NoResult
    /\ UNCHANGED <<aux, developer_mode, whisper, runNo, args, runDir, fs, handlers, logs, words,
                   seen, ended, handled, joinAlive, verified>>

\* The wait for render ends.
JoinRender ==
    /\ pc = "render_wait"
    /\ LET alive == Alive("render")
           obs == run_with_timeout(alive, result)
           h == IF obs.kind # "exc" THEN "continue" ELSE render_recovery(developer_mode)
       IN  /\ alive => CanTimeout
           /\ threads' = Abandon(alive, obs, "render")
           /\ joinAlive' = [joinAlive EXCEPT !["render"] = alive]
           /\ seen' = [seen EXCEPT !["render"] = obs]
           /\ ended' = [ended EXCEPT !["render"] = How(obs)]
           /\ handled' = [handled EXCEPT !["render"] = h]
           /\ err' = IF h = "terminal" THEN obs.val ELSE err
           /\ pc' = IF h = "terminal" THEN "failed" ELSE "finalize"
    /\ result' = NoResult
    /\ UNCHANGED <<aux, developer_mode, whisper, runNo, args, runDir, fs, handlers, logs, words,
                   invoked, verified>>

\* The outer `except Exception as e:` of run: the error trace, the metadata
\* with status "failed", the configuration snapshot, the summary and the
\* archive are written, and the exception is raised again.
failure_artifacts(df, r) ==
    archive(write_summary(save_config_snapshot(
        save_metadata(write_error_trace(df, r), r, "failed"), r), r), r)

\* the exception `raise` hands to the caller of run
reraise(e) == e

FinalizeFailed ==
    /\ pc = "failed"
    /\ fs' = [fs EXCEPT ![dir] = failure_artifacts(@, runNo)]
    /\ logs' = Emit(logs, handlers, runNo)
    /\ err' = reraise(err)
    /\ pc' = "raised"
    /\ UNCHANGED <<aux, developer_mode, whisper, runNo, args, runDir, handlers, threads, result,
                   words, hist>>

\* The tail of run after the try: metadata with status "success",
\* run_summary.json with success true, the configuration snapshot, the
\* summary and the archive.
success_artifacts(df, r) ==
    archive(write_summary(save_config_snapshot(
        [save_metadata(df, r, "success") EXCEPT !["run_summary.json"] = File(r, "success_true")],
        r), r), r)

FinalizeSuccess ==
    /\ pc = "finalize"
    /\ fs' = [fs EXCEPT ![dir] = success_artifacts(@, runNo)]
    /\ logs' = Emit(logs, handlers, runNo)
    /\ pc' = "returned"
    /\ UNCHANGED <<aux, developer_mode, whisper, runNo, args, runDir, handlers, threads, result,
                   words, err, hist>>

Next ==
    \/ StartRun
    \/ InvokeNarration
    \/ JoinNarration
    \/ TrimSilence
    \/ Captions
    \/ JoinTranscribe
    \/ InvokeGenerateAss
    \/ JoinGenerateAss
    \/ InvokeRender
    \/ JoinRender
    \/ FinalizeFailed
    \/ FinalizeSuccess
    \/ StageWork

Spec == Init /\ [][Next]_vars

----------------------------------------------------------------------------
\* voiceover.py: one call of VoiceOverGenerator.generate(text, output_path)
\*
\* The providers are the environment: a POST to the text-to-speech endpoint
\* answers with a status and a body or fails in transport; the TTS package
\* may be missing, its model may fail to load or to download, and
\* tts_to_file may write the audio, write nothing usable, or raise.  Writing
\* the received bytes to the destination succeeds.

\* `for attempt in range(3)`
MaxAttempts == 3

Engines == {"elevenlabs", "coqui"}
Statuses == {200, 400, 404, 500, 503}
\* what requests.post gives: a response, or an exception of the transport
Replies ==
    [kind : {"response"}, status : Statuses, content : {"bytes", "none"}]
        \cup {[kind |-> "error", status |-> 0, content |-> "none"]}
NoReply == [kind |-> "none", status |-> 0, content |-> "none"]

\* An entry of provider_calls: the operation, whether it went through without
\* an exception, and for a POST the reply.
Call(op, ok) == [op |-> op, ok |-> ok, reply |-> NoReply]
PostCall(reply) == [op |-> "post", ok |-> reply.kind = "response", reply |-> reply]

VoiceConfigs ==
    [text : Texts, engine : Engines, force_coqui : BOOLEAN, api_key : BOOLEAN,
     voice_id : BOOLEAN, requests : BOOLEAN]

\* output_path.exists() and output_path.stat().st_size > 0
AudioOk(f) == f \in {"audio", "stale"}

\* generate with `if self.force_coqui:` left out.
use_remote_ignoring_force(v) == v.engine = "elevenlabs" /\ v.api_key /\ v.voice_id

\* generate, lines 45-53: the remote engine is tried only when it is the
\* engine, force_coqui is off, and the API key and the voice id are both set.
use_remote(v) ==
    LET engine == IF v.force_coqui THEN "coqui" ELSE v.engine
    IN  engine = "elevenlabs" /\ v.api_key /\ v.voice_id

\* The loop body of _generate_elevenlabs with `return False` after a 4xx
\* replaced by `continue`.
after_reply_retry_any(reply, n) ==
    IF reply.kind = "response" /\ reply.status = 200 THEN "return_true"
    ELSE IF n + 1 < MaxAttempts THEN "again" ELSE "return_false"

\* The loop body of _generate_elevenlabs for the reply to attempt n: a 200
\* returns True; a status of 500 or more continues the loop; any other status
\* returns False; an exception returns False on the last attempt and goes
\* round the loop otherwise; the loop running out returns False.
after_reply(reply, n) ==
    IF reply.kind = "error"
    THEN (IF n = MaxAttempts - 1 THEN "return_false" ELSE "again")
    ELSE IF reply.status = 200 THEN "return_true"
    ELSE IF reply.status >= 500
    THEN (IF n + 1 < MaxAttempts THEN "again" ELSE "return_false")
    ELSE "return_false"

\* generate, lines 54-60, with the remote engine tried again after it failed.
after_remote_failure_again(v) == IF v.requests THEN "post" ELSE "elevenlabs"

\* generate, lines 54-60: a False from _generate_elevenlabs is followed by
\* `return self._generate_coqui(...)`.
after_remote_failure(v) == "coqui"

\* generate, line 55, with the check of the written file left out.
remote_ok_unchecked(f) == TRUE

\* generate, lines 55-58: after the remote engine returned True the result is
\* whether the destination exists and is non-empty.
remote_ok(f) == AudioOk(f)

\* _generate_coqui, lines 106-114, going on to synthesize after the download
\* without initializing the model again.
after_download_no_init(ok) == IF ok THEN "synth" ELSE "return_false"

\* _generate_coqui, lines 109-114: a download that worked is followed by the
\* second TTS(model_name=...); a failed one returns False.
after_download(ok) == IF ok THEN "tts_init2" ELSE "return_false"

Return(b) ==
    /\ returned' = (IF b THEN "True" ELSE "False")
    /\ vpc' = "done"

\* generate, lines 40-62
Generate ==
    /\ vpc = "generate"
    /\ IF voice.text = ""
       THEN Return(FALSE)
       ELSE /\ vpc' = IF use_remote(voice) THEN "elevenlabs" ELSE "coqui"
            /\ UNCHANGED returned
    /\ UNCHANGED <<pvars, capvars, resvars, rendvars, voice, attempt, provider_calls, output_path>>

\* _generate_elevenlabs, lines 65-72
GenerateElevenlabs ==
    /\ vpc = "elevenlabs"
    /\ provider_calls' = Append(provider_calls, Call("elevenlabs", voice.requests))
    /\ attempt' = 0
    /\ vpc' = IF voice.requests THEN "post" ELSE after_remote_failure(voice)
    /\ UNCHANGED <<pvars, capvars, resvars, rendvars, voice, output_path, returned>>

\* _generate_elevenlabs, lines 73-92: one requests.post and what follows it
Post ==
    /\ vpc = "post"
    /\ \E reply \in Replies :
        LET then == after_reply(reply, attempt)
            listed == reply.kind = "response" /\ reply.status = 404
            written == IF reply.content = "bytes" THEN "audio" ELSE "empty"
        IN  /\ provider_calls' =
                   provider_calls \o <<PostCall(reply)>>
                       \o (IF listed THEN <<Call("list_voices", TRUE)>> ELSE <<>>)
            /\ output_path' = IF then = "return_true" THEN written ELSE output_path
            /\ attempt' = IF then = "again" THEN attempt + 1 ELSE attempt
            /\ CASE then = "again" -> vpc' = "post" /\ UNCHANGED returned
                 [] then = "return_false" ->
                        vpc' = after_remote_failure(voice) /\ UNCHANGED returned
                 [] then = "return_true" ->
                        Return(remote_ok(written))
    /\ UNCHANGED <<pvars, capvars, resvars, rendvars, voice>>

\* _generate_coqui, lines 95-102: the import of the TTS package
GenerateCoqui ==
    /\ vpc = "coqui"
    /\ \E importable \in BOOLEAN :
        /\ provider_calls' = Append(provider_calls, Call("coqui", importable))
        /\ IF importable THEN vpc' = "tts_init" /\ UNCHANGED returned ELSE Return(FALSE)
    /\ UNCHANGED <<pvars, capvars, resvars, rendvars, voice, attempt, output_path>>

\* _generate_coqui, lines 104-106: TTS(model_name=...)
TtsInit ==
    /\ vpc = "tts_init"
    /\ \E ok \in BOOLEAN :
        /\ provider_calls' = Append(provider_calls, Call("TTS", ok))
        /\ vpc' = IF ok THEN "synth" ELSE "download"
    /\ UNCHANGED <<pvars, capvars, resvars, rendvars, voice, attempt, output_path, returned>>

\* _generate_coqui, lines 107-110: ModelManager().download_model(...)
DownloadModel ==
    /\ vpc = "download"
    /\ \E ok \in BOOLEAN :
        LET then == after_download(ok)
        IN  /\ provider_calls' = Append(provider_calls, Call("download_model", ok))
            /\ IF then = "return_false" THEN Return(FALSE)
               ELSE vpc' = then /\ UNCHANGED returned
    /\ UNCHANGED <<pvars, capvars, resvars, rendvars, voice, attempt, output_path>>

\* _generate_coqui, lines 111-114: the second TTS(model_name=...)
TtsInitAgain ==
    /\ vpc = "tts_init2"
    /\ \E ok \in BOOLEAN :
        /\ provider_calls' = Append(provider_calls, Call("TTS", ok))
        /\ IF ok THEN vpc' = "synth" /\ UNCHANGED returned ELSE Return(FALSE)
    /\ UNCHANGED <<pvars, capvars, resvars, rendvars, voice, attempt, output_path>>

\* _generate_coqui, lines 116-124: tts.tts_to_file and the check of the file
TtsToFile ==
    /\ vpc = "synth"
    /\ \E wrote \in {"audio", "empty", "nothing"}, raised \in BOOLEAN :
        /\ provider_calls' = Append(provider_calls, Call("tts_to_file", ~raised))
        /\ output_path' = IF wrote = "nothing" THEN output_path ELSE wrote
        /\ Return(~raised /\ AudioOk(output_path'))
    /\ UNCHANGED <<pvars, capvars, resvars, rendvars, voice, attempt>>

VoiceInit ==
    /\ PipelineInit
    /\ voice \in VoiceConfigs
    /\ vpc = "generate"
    /\ attempt = 0
    /\ provider_calls = <<>>
    /\ output_path \in {"absent", "stale"}
    /\ returned = "none"
    /\ CaptionIdle
    /\ ResolveIdle
    /\ RenderIdle

VoiceNext ==
    \/ Generate
    \/ GenerateElevenlabs
    \/ Post
    \/ GenerateCoqui
    \/ TtsInit
    \/ DownloadModel
    \/ TtsInitAgain
    \/ TtsToFile

VoiceSpec == VoiceInit /\ [][VoiceNext]_vars

----------------------------------------------------------------------------
\* subtitles.py: SubtitleGenerator.generate_ass and _format_time
\*
\* `seconds` is a Python float: a double, sig / 2^exp with a significand of
\* at most Precision binary digits.  A time written in hundredths, t/100, is
\* the double nearest to it, and every float operation of _format_time
\* rounds its exact result to the nearest double, ties to even.  Significands
\* are kept as sequences of digits in base Base, lowest first.

\* significant binary digits of a double
Precision == 53

\* the digits of a significand: LimbBits binary digits each
LimbBits == 10
Base == 2 ^ LimbBits

RECURSIVE BitLen(_)
BitLen(n) == IF n = 0 THEN 0 ELSE 1 + BitLen(n \div 2)

RECURSIVE Trim(_)
Trim(a) == IF a # <<>> /\ a[Len(a)] = 0 THEN Trim(SubSeq(a, 1, Len(a) - 1)) ELSE a

\* number of binary digits of a
Bits(a) ==
    LET t == Trim(a)
    IN  IF t = <<>> THEN 0 ELSE (Len(t) - 1) * LimbBits + BitLen(t[Len(t)])

\* 2^k
Pow2(k) == [i \in 1..(k \div LimbBits + 1) |->
               IF i = k \div LimbBits + 1 THEN 2 ^ (k % LimbBits) ELSE 0]

\* a * m + carry, for a small m
RECURSIVE Mul(_, _, _)
Mul(a, m, carry) ==
    IF a = <<>>
    THEN IF carry = 0 THEN <<>> ELSE <<carry % Base>> \o Mul(<<>>, m, carry \div Base)
    ELSE LET v == a[1] * m + carry
         IN  <<v % Base>> \o Mul(Tail(a), m, v \div Base)

\* quotient and remainder of (rem * Base^Len(a) + a) by a small d
RECURSIVE Div(_, _, _)
Div(a, d, rem) ==
    IF a = <<>> THEN [quot |-> <<>>, rem |-> rem]
    ELSE LET n == Len(a)
             v == rem * Base + a[n]
             r == Div(SubSeq(a, 1, n - 1), d, v % d)
         IN  [quot |-> Append(r.quot, v \div d), rem |-> r.rem]

\* a + s, for a small s
RECURSIVE Add(_, _)
Add(a, s) ==
    IF s = 0 THEN a
    ELSE IF a = <<>> THEN <<s>>
    ELSE <<(a[1] + s) % Base>> \o Add(Tail(a), (a[1] + s) \div Base)

\* a \div 2^s
ShiftRight(a, s) ==
    Div(SubSeq(a, s \div LimbBits + 1, Len(a)), 2 ^ (s % LimbBits), 0).quot

\* a % 2^k
LowBits(a, k) ==
    [i \in 1..(k \div LimbBits + 1) |->
        IF i > Len(a) THEN 0
        ELSE IF i = k \div LimbBits + 1 THEN a[i] % (2 ^ (k % LimbBits))
        ELSE a[i]]

RECURSIVE ToInt(_)
ToInt(a) == IF a = <<>> THEN 0 ELSE a[1] + Base * ToInt(Tail(a))

\* q + rem/d rounded to the nearest integer, a tie to the even one
RoundEven(q, rem, d) ==
    IF 2 * rem > d \/ (2 * rem = d /\ q # <<>> /\ q[1] % 2 = 1) THEN Add(q, 1) ELSE q

\* the z with 2^-z <= c/100 < 2^-(z-1), for 0 < c < 100
RECURSIVE LeadExp(_)
LeadExp(c) == IF c >= 100 THEN 0 ELSE 1 + LeadExp(2 * c)

\* The float written as t hundredths in decimal: the double nearest to t/100.
Seconds(t) ==
    IF t = 0 THEN [sig |-> <<>>, exp |-> 0]
    ELSE LET n == t \div 100
             k == IF n > 0 THEN Precision - BitLen(n) ELSE Precision - 1 + LeadExp(t)
             d == Div(Mul(Pow2(k), t, 0), 100, 0)
         IN  [sig |-> RoundEven(d.quot, d.rem, 100), exp |-> k]

\* the exact value x rounded to a double
Rounded(x) ==
    LET s == Bits(x.sig) - Precision
    IN  IF s <= 0 THEN x
        ELSE LET d == Div(x.sig, 2 ^ s, 0)
             IN  [sig |-> RoundEven(d.quot, d.rem, 2 ^ s), exp |-> x.exp - s]

\* int(x), for x >= 0
Trunc(x) == ToInt(ShiftRight(x.sig, x.exp))

\* `seconds - int(seconds)`: the digits after the point (the difference of a
\* double and its integer part is a double, nothing is rounded)
FracPart(x) == [sig |-> LowBits(x.sig, x.exp), exp |-> x.exp]

\* x * m, rounded
Times(x, m) == Rounded([sig |-> Mul(x.sig, m, 0), exp |-> x.exp])

\* `int((seconds - int(seconds)) * 100)`
Hundredths(x) == Trunc(Times(FracPart(x), 100))

\* Decimal digits, as str.format writes them for `d` with a minimum width.
Digit(d) == <<"0", "1", "2", "3", "4", "5", "6", "7", "8", "9">>[d + 1]

RECURSIVE Decimal(_)
Decimal(k) == IF k < 10 THEN <<Digit(k)>> ELSE Append(Decimal(k \div 10), Digit(k % 10))

RECURSIVE ZeroPad(_, _)
ZeroPad(s, width) == IF Len(s) >= width THEN s ELSE ZeroPad(<<"0">> \o s, width)

\* SubtitleGenerator._format_time(seconds).  For seconds >= 0 the floor
\* division and the remainders of lines 67-69 are exact and equal those of
\* int(seconds); line 70 is the float arithmetic of Hundredths.
format_time(x) ==
    LET hrs  == Trunc(x) \div 3600
        mins == (Trunc(x) % 3600) \div 60
        secs == Trunc(x) % 60
        ms   == Hundredths(x)
    IN  ZeroPad(Decimal(hrs), 1) \o <<":">> \o ZeroPad(Decimal(mins), 2) \o <<":">>
            \o ZeroPad(Decimal(secs), 2) \o <<".">> \o ZeroPad(Decimal(ms), 2)

\* str.strip(): leading and trailing blanks removed
RECURSIVE lstrip(_)
lstrip(s) == IF s # <<>> /\ s[1] = " " THEN lstrip(Tail(s)) ELSE s

RECURSIVE rstrip(_)
rstrip(s) == IF s # <<>> /\ s[Len(s)] = " " THEN rstrip(SubSeq(s, 1, Len(s) - 1)) ELSE s

strip(s) == rstrip(lstrip(s))

Styles == {"simple", "karaoke", "progressive"}

\* SubtitleGenerator._style_tag(text)
style_tag(st, text) ==
    IF st = "karaoke" THEN <<"{\\k20}">> \o text
    ELSE IF st = "progressive" THEN <<"{\\alpha&HFF&\\t(0,300,\\alpha&H00&)}">> \o text
    ELSE text

\* w.get("text", "")
get_text(w) == IF "text" \in DOMAIN w THEN w.text ELSE <<>>

\* One "Dialogue: 0,{start},{end},Default,{text}" line of the [Events] section.
Dialogue(start, end, text) == [start |-> start, end |-> end, text |-> text]

\* the line create_dummy_subtitles writes (helpers.py)
DummyDialogue ==
    Dialogue(<<"0", ":", "0", "0", ":", "0", "0", ".", "0", "0">>,
             <<"0", ":", "0", "0", ":", "0", "2", ".", "0", "0">>,
             <<"Subtitle generation failed">>)

\* generate_ass with the `if not words` branch removed: the header alone.
ass_events_header_only(ws, st) ==
    [i \in 1..Len(ws) |->
        Dialogue(format_time(Seconds(ws[i].start)), format_time(Seconds(ws[i].end)),
                 style_tag(st, strip(get_text(ws[i]))))]

\* The Dialogue lines generate_ass leaves in the file.  The lines before them
\* ([Script Info], [V4+ Styles], [Events] and its Format line) are the same
\* in the file generate_ass writes and in the one create_dummy_subtitles writes.
ass_events(ws, st) ==
    IF ws = <<>> THEN <<DummyDialogue>>
    ELSE [i \in 1..Len(ws) |->
            Dialogue(format_time(Seconds(ws[i].start)), format_time(Seconds(ws[i].end)),
                     style_tag(st, strip(get_text(ws[i]))))]

\* Bounds of the caption model
MaxWords == 2
MaxAssCalls == 2
MaxCentis == 130

\* segments as whisper returns them (start, end, text), one of them without
\* the optional text; times in hundredths of a second
WordSet ==
    { [start |-> 0, end |-> 29, text |-> <<" ", "h", "i", " ">>],
      [start |-> 129, end |-> 158] }
WordLists == UNION {[1..n -> WordSet] : n \in 0..MaxWords}

\* the times given to _format_time: every hundredth up to MaxCentis, and
\* 1.0 and 3661.5
TimesGiven == 0..MaxCentis \cup {100, 366150}

\* subs.generate_ass(words, output_path)
GenerateAss ==
    /\ ass_calls < MaxAssCalls
    /\ \E ws \in WordLists :
          /\ segments' = ws
          /\ ass_path' = [exists |-> TRUE, events |-> ass_events(ws, style)]
    /\ ass_calls' = ass_calls + 1
    /\ UNCHANGED <<pvars, vovars, resvars, rendvars, style, seconds, stamp>>

\* SubtitleGenerator._format_time(seconds)
FormatTime ==
    /\ stamp = NoStamp
    /\ stamp' = format_time(Seconds(seconds))
    /\ UNCHANGED <<pvars, vovars, resvars, rendvars, style, segments, ass_path, ass_calls, seconds>>

CaptionInit ==
    /\ PipelineInit
    /\ VoiceIdle
    /\ style \in Styles
    /\ segments = <<>>
    /\ ass_path = NoFile
    /\ ass_calls = 0
    /\ seconds \in TimesGiven
    /\ stamp = NoStamp
    /\ ResolveIdle
    /\ RenderIdle

CaptionNext ==
    \/ FormatTime
    \/ GenerateAss

CaptionSpec == CaptionInit /\ [][CaptionNext]_vars

----------------------------------------------------------------------------
\* renderer.py: VideoRenderer._resolve_folder(folder)
\*
\* The parent directory is what root.iterdir() yields, in the order it yields
\* it: the folders in it, each with whether _list_videos finds a .mp4 or
\* .webm in it.  The file system tells names apart by case.

\* Bounds of the resolver model
MaxListed == 4
MaxSubdirs == 2

FolderNames == {"minecraft", "Minecraft", "rain", "Rain", "space"}
Requested == {"minecraft", "Minecraft"}

\* str.lower()
lower(n) ==
    CASE n = "Minecraft" -> "minecraft"
      [] n = "Rain" -> "rain"
      [] n = ".MP4" -> ".mp4"
      [] OTHER -> n

Folders == [name : FolderNames, videos : BOOLEAN]

Listings ==
    { l \in UNION {[1..n -> Folders] : n \in 0..MaxListed} :
        \A i, j \in 1..Len(l) : i # j => l[i].name # l[j].name }

SubdirLists == UNION {[1..n -> BOOLEAN] : n \in 0..MaxSubdirs}

\* the first of the indices `hits` (0: none), as a `for` loop that leaves at
\* the first element passing its test finds it
First(hits) ==
    IF hits = {} THEN 0 ELSE CHOOSE i \in hits : \A j \in hits : i <= j

Returns(where, name) == [kind |-> "return", where |-> where, name |-> name]
Raises(e) == [kind |-> "raise", where |-> "none", name |-> e]

\* folder.exists()
FolderExists(fd, rt) == \E i \in 1..Len(rt.listing) : rt.listing[i].name = fd

\* self._list_videos(folder) is non-empty
OwnVideos(fd, rt) ==
    \E i \in 1..Len(rt.listing) : rt.listing[i].name = fd /\ rt.listing[i].videos

\* line 69 with the name compared as it is spelt.
is_rain_exact(cand) == cand.name = "rain" /\ cand.videos

\* line 69: `cand.name.lower() == "rain" and self._list_videos(cand)`
is_rain(cand) == lower(cand.name) = "rain" /\ cand.videos

\* lines 75-80 left out: no search for any folder with videos.
any_folder_none(l) == 0

\* lines 75-80: the first folder of the parent that holds videos
any_folder(l) == First({i \in 1..Len(l) : l[i].videos})

\* lines 54-81: the search in the parent directory
search_root(fd, rt) ==
    IF ~rt.exists THEN Raises("FileNotFoundError")
    ELSE LET l == rt.listing
             m == First({i \in 1..Len(l) : lower(l[i].name) = lower(fd)})
             r == First({i \in 1..Len(l) : is_rain(l[i])})
             a == any_folder(l)
         IN  IF m # 0 /\ l[m].videos THEN Returns("root", l[m].name)
             ELSE IF r # 0 THEN Returns("root", l[r].name)
             ELSE IF a # 0 THEN Returns("root", l[a].name)
             ELSE Raises("FileNotFoundError")

\* _resolve_folder(folder)
resolve_folder(fd, rt, subs) ==
    IF FolderExists(fd, rt) /\ OwnVideos(fd, rt) THEN Returns("requested", fd)
    ELSE IF FolderExists(fd, rt) /\ First({i \in 1..Len(subs) : subs[i]}) # 0
    THEN Returns("subdir", fd)
    ELSE search_root(fd, rt)

ResolveFolder ==
    /\ bg_folder = NotResolved
    /\ bg_folder' = resolve_folder(folder, root, subdirs)
    /\ UNCHANGED <<pvars, vovars, capvars, rendvars, folder, root, subdirs>>

ResolveInit ==
    /\ PipelineInit
    /\ VoiceIdle
    /\ CaptionIdle
    /\ folder \in Requested
    /\ root \in [exists : {TRUE}, listing : Listings] \cup {NoRoot}
    /\ subdirs \in SubdirLists
    /\ (subdirs # <<>>) => FolderExists(folder, root)
    /\ bg_folder = NotResolved
    /\ RenderIdle

ResolveNext == ResolveFolder

ResolveSpec == ResolveInit /\ [][ResolveNext]_vars

----------------------------------------------------------------------------
\* renderer.py: one call of VideoRenderer.render
\*
\* The environment is ffmpeg: each subprocess.run ends with a non-zero exit,
\* or with a zero exit having written its output, written it empty, or not
\* written it.  Paths are kept as their parts; an argument of a command is the
\* sequence of the pieces it is put together from.

AudioPath == <<"out", "voice.wav">>
SubsPath == <<"out", "subtitles.ass">>
WatermarkPath == <<"assets", "wm.png">>
BgVideo == <<"backgrounds", "rain", "clip.mp4">>
IntroPath == <<"clips", "intro.mp4">>
OutroPath == <<"clips", "outro.mp4">>
OutputNames == {"final_video.mp4", "final_video.MP4", "final_video.mov"}
OutputPath(a) == <<"out", a.output>>

\* Path.suffix
Suffix(n) ==
    CASE n = "final_video.mp4" -> ".mp4"
      [] n = "final_video.MP4" -> ".MP4"
      [] n = "final_video.mov" -> ".mov"
      [] OTHER -> ""

\* Path.with_name(name)
with_name(p, name) == [p EXCEPT ![Len(p)] = name]

\* the parts of a path joined by a separator
RECURSIVE JoinParts(_, _)
JoinParts(p, sep) == IF Len(p) <= 1 THEN p ELSE <<p[1], sep>> \o JoinParts(Tail(p), sep)

\* str(path) on a host whose separator is sep
native(p, sep) == JoinParts(p, sep)

\* Path.as_posix()
as_posix(p) == JoinParts(p, "/")

\* str.join of pieces that are sequences themselves
RECURSIVE JoinAll(_, _)
JoinAll(parts, sep) ==
    IF parts = <<>> THEN <<>>
    ELSE IF Len(parts) = 1 THEN parts[1]
    ELSE parts[1] \o <<sep>> \o JoinAll(Tail(parts), sep)

\* overlay_text.replace("'", r"\'")
escape_quotes(text) == [i \in 1..Len(text) |-> IF text[i] = "'" THEN "\\'" ELSE text[i]]

OverlayTexts == {<<>>, <<"title">>, <<"it", "'", "s">>}
Programs(sep) ==
    IF sep = "\\" THEN {<<"ffmpeg">>, native(<<"C:", "tools", "ffmpeg.exe">>, sep)}
    ELSE {<<"ffmpeg">>}

RenderArgs ==
    { a \in [audio : {"missing", "wav", "corrupt"},
             subtitles : {"none", "missing", "present"},
             intro : {"none", "missing", "present"},
             outro : {"none", "missing", "present"},
             output : OutputNames,
             watermark : BOOLEAN,
             crop_safe : BOOLEAN,
             overlay_text : OverlayTexts,
             sep : {"/", "\\"},
             ffmpeg : Programs("/") \cup Programs("\\"),
             videos : BOOLEAN] :
        a.ffmpeg \in Programs(a.sep) }

\* lines 110-134 with the wave.open test left out.
validate_no_wave(a) ==
    IF a.audio = "missing" THEN "FileNotFoundError"
    ELSE IF a.intro = "missing" THEN "FileNotFoundError"
    ELSE IF a.outro = "missing" THEN "FileNotFoundError"
    ELSE IF lower(Suffix(a.output)) # ".mp4" THEN "ValueError"
    ELSE IF ~a.videos THEN "FileNotFoundError"
    ELSE "ok"

\* lines 110-134: the audio exists, a given intro or outro exists, the
\* destination ends in .mp4, pick_background finds a video, wave.open reads
\* the audio.  A caption path that is given but missing raises nothing.
validate(a) ==
    IF a.audio = "missing" THEN "FileNotFoundError"
    ELSE IF a.intro = "missing" THEN "FileNotFoundError"
    ELSE IF a.outro = "missing" THEN "FileNotFoundError"
    ELSE IF lower(Suffix(a.output)) # ".mp4" THEN "ValueError"
    ELSE IF ~a.videos THEN "FileNotFoundError"
    ELSE IF a.audio = "corrupt" THEN "wave.Error"
    ELSE "ok"

\* line 146 as `if subs or wm:`.
use_filter_complex_either(subs, wm) == subs \/ wm

\* line 146: `if subs and wm:`
use_filter_complex(subs, wm) == subs /\ wm

Crop == <<"crop=iw*0.9:ih*0.9:(iw-iw*0.9)/2:(ih-ih*0.9)/2">>
DrawText(text) ==
    <<"drawtext=text='">> \o escape_quotes(text)
        \o <<"':fontcolor=white:fontsize=48:x=(w-text_w)/2:y=10:enable='lt(t,3)'">>

\* lines 140-141: the caption path when given and existing, the watermark
\* the renderer kept at construction; <<>> for None
Subs(a) == IF a.subtitles = "present" THEN as_posix(SubsPath) ELSE <<>>
Wm(a) == IF a.watermark THEN as_posix(WatermarkPath) ELSE <<>>

\* lines 147-167: the arguments of the -filter_complex form
filter_complex_args(a) ==
    LET chain == <<"[vsubs]", "[wm]", "overlay=W-w-10:H-h-10">>
                    \o (IF a.crop_safe THEN <<",">> \o Crop ELSE <<>>)
                    \o (IF a.overlay_text # <<>> THEN <<",">> \o DrawText(a.overlay_text) ELSE <<>>)
                    \o <<",", "format=yuv420p", "[v]">>
        fc == << <<"[0:v]", "subtitles='">> \o Subs(a) \o <<"'", "[vsubs]">>,
                 <<"movie=">> \o Wm(a) \o <<"[wm]">>,
                 chain >>
    IN  << <<"-filter_complex">>, JoinAll(fc, ";"), <<"-map">>, <<"[v]">>, <<"-map">>, <<"1:a">> >>

\* lines 169-189: the arguments of the -vf form
vf_args(a) ==
    LET vf_parts ==
            (IF Subs(a) # <<>> THEN << <<"subtitles='">> \o Subs(a) \o <<"'">> >> ELSE <<>>)
            \o (IF Wm(a) # <<>>
                THEN << <<"movie=">> \o Wm(a) \o <<"[wm];[in][wm]overlay=W-w-10:H-h-10:format=auto">> >>
                ELSE <<>>)
            \o (IF a.crop_safe THEN <<Crop>> ELSE <<>>)
            \o (IF a.overlay_text # <<>> THEN <<DrawText(a.overlay_text)>> ELSE <<>>)
            \o << <<"format=yuv420p">> >>
    IN  << <<"-vf">>,
           IF Wm(a) # <<>> /\ Subs(a) = <<>> THEN JoinAll(vf_parts, ";")
           ELSE JoinAll(vf_parts, ",") >>

\* lines 191-193
main_output(a) ==
    IF a.intro # "none" \/ a.outro # "none" THEN with_name(OutputPath(a), "_main.mp4")
    ELSE OutputPath(a)

\* lines 138-195: the command of the main pass
main_cmd(a) ==
    <<a.ffmpeg, <<"-y">>, <<"-i">>, as_posix(BgVideo), <<"-i">>, as_posix(AudioPath)>>
        \o (IF use_filter_complex(Subs(a) # <<>>, Wm(a) # <<>>)
            THEN filter_complex_args(a) ELSE vf_args(a))
        \o << <<"-s">>, <<"1080x1920">>, as_posix(main_output(a)) >>

\* lines 213-219: the lines of concat.txt
concat_list(a) ==
    (IF a.intro # "none" THEN <<as_posix(IntroPath)>> ELSE <<>>)
        \o <<as_posix(main_output(a))>>
        \o (IF a.outro # "none" THEN <<as_posix(OutroPath)>> ELSE <<>>)

\* lines 220-232: the command of the second pass
concat_cmd(a) ==
    <<a.ffmpeg, <<"-y">>, <<"-f">>, <<"concat">>, <<"-safe">>, <<"0">>, <<"-i">>,
      as_posix(with_name(OutputPath(a), "concat.txt")), <<"-c">>, <<"copy">>,
      as_posix(OutputPath(a))>>

\* how one subprocess.run can end: the exit status and what is at its output
Exits ==
    {[rc |-> 1, wrote |-> "nothing"], [rc |-> 0, wrote |-> "video"],
     [rc |-> 0, wrote |-> "empty"], [rc |-> 0, wrote |-> "nothing"]}

Process(pass, argv, x) == [pass |-> pass, argv |-> argv, rc |-> x.rc]

Raise(e) ==
    /\ rendered' = e
    /\ rpc' = "done"

\* lines 110-134
Validate ==
    /\ rpc = "validate"
    /\ IF validate(render_args) = "ok"
       THEN rpc' = "build" /\ UNCHANGED rendered
       ELSE Raise(validate(render_args))
    /\ UNCHANGED <<pvars, vovars, capvars, resvars, render_args, cmd, processes, out_files>>

\* lines 136-197
BuildCommand ==
    /\ rpc = "build"
    /\ cmd' = main_cmd(render_args)
    /\ rpc' = "main"
    /\ UNCHANGED <<pvars, vovars, capvars, resvars, render_args, processes, out_files, rendered>>

\* lines 199-207: subprocess.run(cmd, check=True, ...)
RunMain ==
    /\ rpc = "main"
    /\ \E x \in Exits :
          /\ processes' = Append(processes, Process("main", cmd, x))
          /\ out_files' =
                IF x.wrote = "nothing" THEN out_files
                ELSE IF main_output(render_args) = OutputPath(render_args)
                THEN [out_files EXCEPT !.dest = x.wrote]
                ELSE [out_files EXCEPT !.main = x.wrote]
          /\ IF x.rc # 0 THEN Raise("CalledProcessError")
             ELSE rpc' = "check" /\ UNCHANGED rendered
    /\ UNCHANGED <<pvars, vovars, capvars, resvars, render_args, cmd>>

\* lines 209-212
CheckMain ==
    /\ rpc = "check"
    /\ LET written == IF main_output(render_args) = OutputPath(render_args)
                      THEN out_files.dest ELSE out_files.main
       IN  IF written # "video" THEN Raise("RuntimeError")
           ELSE /\ rpc' = IF render_args.intro # "none" \/ render_args.outro # "none"
                          THEN "concat" ELSE "return"
                /\ UNCHANGED rendered
    /\ UNCHANGED <<pvars, vovars, capvars, resvars, render_args, cmd, processes, out_files>>

\* lines 213-219: concat.txt is written
WriteConcatList ==
    /\ rpc = "concat"
    /\ out_files' = [out_files EXCEPT !.concat = "list"]
    /\ rpc' = "concat_run"
    /\ UNCHANGED <<pvars, vovars, capvars, resvars, render_args, cmd, processes, rendered>>

\* lines 220-233: subprocess.run(cmd2, check=True)
RunConcat ==
    /\ rpc = "concat_run"
    /\ \E x \in Exits :
          /\ processes' = Append(processes, Process("concat", concat_cmd(render_args), x))
          /\ out_files' = IF x.wrote = "nothing" THEN out_files
                          ELSE [out_files EXCEPT !.dest = x.wrote]
          /\ IF x.rc # 0 THEN Raise("CalledProcessError")
             ELSE rpc' = "unlink" /\ UNCHANGED rendered
    /\ UNCHANGED <<pvars, vovars, capvars, resvars, render_args, cmd>>

\* lines 234-235: _main.mp4 and concat.txt are unlinked
Unlink ==
    /\ rpc = "unlink"
    /\ out_files' = [out_files EXCEPT !.main = "absent", !.concat = "absent"]
    /\ rpc' = "return"
    /\ UNCHANGED <<pvars, vovars, capvars, resvars, render_args, cmd, processes, rendered>>

\* line 237 and the return
RenderReturn ==
    /\ rpc = "return"
    /\ rendered' = "returned"
    /\ rpc' = "done"
    /\ UNCHANGED <<pvars, vovars, capvars, resvars, render_args, cmd, processes, out_files>>

RenderInit ==
    /\ PipelineInit
    /\ VoiceIdle
    /\ CaptionIdle
    /\ ResolveIdle
    /\ render_args \in RenderArgs
    /\ rpc = "validate"
    /\ cmd = <<>>
    /\ processes = <<>>
    /\ out_files = NoOutFiles
    /\ rendered = "none"

RenderNext ==
    \/ Validate
    \/ BuildCommand
    \/ RunMain
    \/ CheckMain
    \/ WriteConcatList
    \/ RunConcat
    \/ Unlink
    \/ RenderReturn

RenderSpec == RenderInit /\ [][RenderNext]_vars

----------------------------------------------------------------------------
\* Properties

Rank(s) ==
    CASE s = "narration"    -> 1
      [] s = "transcribe"   -> 2
      [] s = "generate_ass" -> 3
      [] s = "render"       -> 4

Invoked == {invoked[i] : i \in 1..Len(invoked)}
Captioning == {"transcribe", "generate_ass"}
Failed(s) == ended[s] \in {"exc", "timeout", "invalid"}
Finished == pc \in {"returned", "raised"}
Fresh(name, kind) == fs[dir][name] = File(runNo, kind)
final_video == fs[dir]["final_video.mp4"]

\* the exception the orchestrator got from the step of stage s
StepError(s) == IF ended[s] = "invalid" THEN "RuntimeError" ELSE seen[s].val

\* C1: in every run the stage calls are made in the order narration,
\* captioning (transcribe, generate_ass), rendering, each at most once; a call
\* is made only after the step of every earlier call has ended; captioning is
\* made exactly when captions are enabled and never without narration before
\* it; the run is finalized only after the step of every call made has ended.
C1_StageOrder ==
    /\ \A i, j \in 1..Len(invoked) : i < j => Rank(invoked[i]) < Rank(invoked[j])
    /\ \A i \in 1..Len(invoked) : i < Len(invoked) => ended[invoked[i]] # "no"
    /\ invoked # <<>> => invoked[1] = "narration"
    /\ args.no_subtitles => Invoked \cap Captioning = {}
    /\ ("render" \in Invoked /\ ~args.no_subtitles) => Invoked \cap Captioning # {}
    /\ pc \in {"failed", "finalize", "returned", "raised"}
          => \A s \in Invoked : ended[s] # "no"

C1_Witness ==
    /\ pc = "returned"
    /\ invoked = <<"narration", "transcribe", "generate_ass", "render">>

\* C2: whenever run returns normally the final video exists and is non-empty,
\* metadata.json records status "success" and run_summary.json success = true.
C2_SuccessArtifacts ==
    pc = "returned" =>
        /\ NonEmpty(final_video)
        /\ Fresh("metadata.json", "success")
        /\ Fresh("run_summary.json", "success_true")

\* C3: when the narration step fails (exception, timeout, or no non-empty
\* audio file) in developer mode, silence is substituted and the run goes on;
\* if it then returns, the final video exists and the summary records success.
C3_DegradedNarration ==
    (developer_mode /\ Failed("narration")) =>
        /\ handled["narration"] = "substitute"
        /\ pc = "returned" =>
              /\ NonEmpty(final_video)
              /\ Fresh("run_summary.json", "success_true")

\* C4: with developer mode off, a failed narration or render step makes run
\* raise; once it has raised, and from then on, no non-empty final video is at
\* the final video path, and error_trace.txt has been written.
C4_FailureLeavesNoVideo ==
    (~developer_mode /\ (Failed("narration") \/ Failed("render"))) =>
        /\ pc \in {"failed", "raised"}
        /\ pc = "raised" =>
              /\ ~NonEmpty(final_video)
              /\ Fresh("error_trace.txt", "trace")

\* C5: a step failure that cannot be recovered (narration or captioning with
\* developer mode off, rendering always) is followed by no further stage call;
\* the run never returns normally; the exception raised to the caller is the
\* one the failed step gave; the failure artifacts are written by then.
NonRecoverable(s) == Failed(s) /\ (s = "render" \/ ~developer_mode)

C5_TerminalFailure ==
    \A s \in Stages : NonRecoverable(s) =>
        /\ pc \in {"failed", "raised"}
        /\ invoked[Len(invoked)] = s
        /\ err = StepError(s)
        /\ pc = "raised" =>
              /\ Fresh("error_trace.txt", "trace")
              /\ Fresh("metadata.json", "failed")

C5_Witness ==
    /\ pc = "raised"
    /\ developer_mode
    /\ handled["narration"] = "substitute"
    /\ ended["render"] = "timeout"
    /\ err = "TimeoutError"

\* C6: when run has returned or raised, the session directory holds
\* metadata.json, run_summary.json, summary.txt and session_config.json
\* written by this run, and error_trace.txt too when it raised.
C6_ArtifactsBothOutcomes ==
    Finished =>
        /\ Fresh("metadata.json", IF pc = "returned" THEN "success" ELSE "failed")
        /\ fs[dir]["run_summary.json"].by = runNo
        /\ Fresh("summary.txt", "summary")
        /\ Fresh("session_config.json", "config")
        /\ pc = "raised" => Fresh("error_trace.txt", "trace")

\* C7: a stage call still executing when the wait ends is handled as a failure
\* of that step, exactly as an exception of the call is: narration and
\* captioning are substituted in developer mode and end the run otherwise,
\* rendering always ends the run; a call that has ended by then hands the
\* orchestrator what it returned or raised.
Policy(s) ==
    IF s # "render" /\ developer_mode THEN "substitute" ELSE "terminal"

C7_Handling ==
    \A s \in Stages :
        /\ joinAlive[s] => (ended[s] = "timeout" /\ handled[s] = Policy(s))
        /\ ended[s] = "exc" => handled[s] = Policy(s)

C7_Observed ==
    \A s \in Stages :
        (pc = WaitPc(s) /\ pc' # pc /\ ~Alive(s)) => seen'[s] = result

C7_TimeoutIsFailure == [] C7_Handling /\ [][C7_Observed]_vars

C7_Witness ==
    /\ developer_mode
    /\ joinAlive["narration"] /\ handled["narration"] = "substitute"
    /\ ended["generate_ass"] = "exc" /\ handled["generate_ass"] = "substitute"
    /\ joinAlive["render"] /\ handled["render"] = "terminal"
    /\ pc = "raised"

\* C8: a stage is started only after the orchestrator has checked the output
\* of the stage before it to exist with non-zero size: the audio before
\* captioning, the audio and (with captions enabled) the captions before
\* rendering.
C8_VerifiedBeforeNext ==
    /\ Invoked \cap Captioning # {} => "voice.wav" \in verified
    /\ "render" \in Invoked =>
          /\ "voice.wav" \in verified
          /\ ~args.no_subtitles => "subtitles.ass" \in verified

\* C9 as stated: no two calls of different stages of one run execute at the
\* same time.
StageOf(t) == IF t.stage \in Captioning THEN "captioning" ELSE t.stage

C9_NoParallelStages ==
    \A t, u \in threads : t.run = u.run => StageOf(t) = StageOf(u)

\* C9 as amended: the orchestrator waits for at most one stage call, and any
\* other call still executing was given up by run_with_timeout with a
\* TimeoutError; only such an abandoned call overlaps a later stage.
C9_OnlyAbandonedOverlap ==
    /\ \A t \in threads : IsWaited(t) \/ t.abandoned
    /\ \A t, u \in threads : (IsWaited(t) /\ IsWaited(u)) => t = u

C9_Witness ==
    \E t, u \in threads :
        /\ t.run = u.run
        /\ t.stage = "narration" /\ t.abandoned
        /\ u.stage = "transcribe" /\ IsWaited(u)

\* C10: two runs in one process have different output directories, and a
\* record logged during a run is in the pipeline.log of that run only.
C10_RunIsolation ==
    /\ \A r, q \in 1..runNo : r # q => runDir[r] # runDir[q]
    /\ \A d \in Dirs : \A r \in logs[d] : runDir[r] = d

\* C11: a run whose script is empty after trimming, with developer mode off,
\* calls neither captioning nor rendering, ends by raising, and writes no
\* final video; generate itself returns False for such a text without
\* writing anything.
C11_EmptyScript ==
    (runNo > 0 /\ args.script_text = "" /\ ~developer_mode) =>
        /\ Invoked \subseteq {"narration"}
        /\ pc \in {"narr_invoke", "narr_wait", "failed", "raised"}
        /\ final_video.by # runNo
        /\ seen["narration"] \in {NoResult, Value("False"), Exc("TimeoutError")}

\* The calls of one generate call, by operation.
Ops(op) == {i \in 1..Len(provider_calls) : provider_calls[i].op = op}
Count(op) == Cardinality(Ops(op))
RemoteOps == {"elevenlabs", "post", "list_voices"}
LocalOps == {"coqui", "TTS", "download_model", "tts_to_file"}
MissingCredentials == ~(voice.api_key /\ voice.voice_id)
RemoteSelected == voice.text # "" /\ voice.engine = "elevenlabs" /\ ~voice.force_coqui
\* _generate_elevenlabs returned True / returned False
RemoteSucceeded == \E i \in Ops("post") : provider_calls[i].reply.status = 200
RemoteFailed == Count("elevenlabs") > 0 /\ vpc # "post" /\ ~RemoteSucceeded
Retryable(reply) == reply.kind = "error" \/ reply.status >= 500

\* C12: with the remote engine selected, its definitive failure (missing
\* credentials; _generate_elevenlabs returning False after exhausted retries,
\* a 4xx, or without the requests library) is followed by exactly one call of
\* _generate_coqui and by no further synthesis request to the remote engine;
\* when the remote engine succeeded _generate_coqui is not called.
C12_FallbackOnce ==
    /\ Count("elevenlabs") <= 1
    /\ Count("coqui") <= 1
    /\ (RemoteSelected /\ (MissingCredentials \/ RemoteFailed)) =>
          \/ vpc \in {"generate", "coqui"} /\ Count("coqui") = 0
          \/ vpc \notin {"generate", "coqui", "elevenlabs", "post"} /\ Count("coqui") = 1
    /\ \A i, j \in 1..Len(provider_calls) :
          (i < j /\ provider_calls[i].op = "coqui") => provider_calls[j].op \in LocalOps
    /\ RemoteSucceeded => (Count("coqui") = 0 /\ vpc = "done")

C12_Witness ==
    /\ vpc = "done"
    /\ Count("post") = MaxAttempts
    /\ Count("coqui") = 1
    /\ returned = "True"

\* C13: one generate call sends at most 3 POSTs; every POST but the last was
\* answered by a transport error or a status of 500 or more, so a 200 or a
\* 4xx is never followed by another POST.
C13_AtMostThreePosts ==
    /\ Count("post") <= MaxAttempts
    /\ \A i, j \in Ops("post") : i < j => Retryable(provider_calls[i].reply)
    /\ vpc = "post" =>
          /\ Count("post") < MaxAttempts
          /\ \A i \in Ops("post") : Retryable(provider_calls[i].reply)

C13_Witness ==
    /\ Count("post") = MaxAttempts
    /\ \E i, j, k \in Ops("post") :
          /\ i < j /\ j < k
          /\ provider_calls[i].reply.kind = "error"
          /\ provider_calls[j].reply.status = 503
          /\ provider_calls[k].reply.kind = "error"
    /\ vpc = "coqui"

\* C14: with force_coqui set, or with the API key or the voice id missing,
\* generate makes no call to the remote engine, and for a non-empty text it
\* calls _generate_coqui, once.
C14_LocalOnly ==
    (voice.force_coqui \/ MissingCredentials) =>
        /\ \A i \in 1..Len(provider_calls) : provider_calls[i].op \in LocalOps
        /\ vpc \notin {"elevenlabs", "post"}
        /\ (voice.text # "" /\ vpc \notin {"generate", "coqui"}) => Count("coqui") = 1

C14_Witness ==
    /\ voice.force_coqui /\ voice.engine = "elevenlabs"
    /\ voice.api_key /\ voice.voice_id
    /\ returned = "True"

\* C15: generate returns True only with the destination existing and
\* non-empty; whenever it has returned with the destination absent or empty
\* it returned False.
C15_SuccessMeansFile ==
    /\ vpc = "done" => returned \in {"True", "False"}
    /\ returned = "True" => AudioOk(output_path)
    /\ (vpc = "done" /\ ~AudioOk(output_path)) => returned = "False"

C15_Witness ==
    /\ vpc = "done"
    /\ RemoteSucceeded
    /\ output_path = "empty"
    /\ returned = "False"

\* C16: in _generate_coqui a failed first TTS(...) is followed by exactly one
\* download_model and, when that worked, exactly one more TTS(...); a failed
\* download or second TTS(...) returns False without tts_to_file; otherwise
\* tts_to_file is called.  A first TTS(...) that worked needs no download.
C16_DownloadOnce ==
    /\ Count("download_model") <= 1
    /\ Count("TTS") <= 2
    /\ \A i \in Ops("TTS") :
          (\A k \in Ops("TTS") : i <= k) =>
              LET n == Len(provider_calls)
                  at(k) == provider_calls[k]
              IN  IF at(i).ok
                  THEN /\ Count("download_model") = 0 /\ Count("TTS") = 1
                       /\ \/ n = i /\ vpc = "synth"
                          \/ n = i + 1 /\ at(i + 1).op = "tts_to_file"
                  ELSE /\ n = i => vpc = "download"
                       /\ n > i => at(i + 1).op = "download_model"
                       /\ (n > i /\ ~at(i + 1).ok) => (n = i + 1 /\ returned = "False")
                       /\ (n > i /\ at(i + 1).ok) =>
                             \/ n = i + 1 /\ vpc = "tts_init2"
                             \/ n >= i + 2 /\ at(i + 2).op = "TTS"
                       /\ (n >= i + 2 /\ ~at(i + 2).ok) => (n = i + 2 /\ returned = "False")
                       /\ (n >= i + 2 /\ at(i + 2).ok) =>
                             \/ n = i + 2 /\ vpc = "synth"
                             \/ n = i + 3 /\ at(i + 3).op = "tts_to_file"

C16_Witness ==
    /\ Count("TTS") = 2
    /\ Count("download_model") = 1
    /\ Count("tts_to_file") = 1
    /\ returned = "True"

\* C17: after generate_ass the caption file always holds Dialogue lines: for
\* n > 0 segments exactly n of them, the i-th one made from the i-th segment,
\* for no segments exactly the placeholder line; and a further call with no
\* segments after such a call leaves the same file.
C17_Events ==
    ass_path.exists =>
        /\ Len(ass_path.events) > 0
        /\ IF segments = <<>>
           THEN ass_path.events = <<DummyDialogue>>
           ELSE /\ Len(ass_path.events) = Len(segments)
                /\ \A i \in 1..Len(segments) :
                      ass_path.events[i] =
                          Dialogue(format_time(Seconds(segments[i].start)),
                                   format_time(Seconds(segments[i].end)),
                                   style_tag(style, strip(get_text(segments[i]))))

C17_Again ==
    (ass_calls > 0 /\ segments = <<>> /\ ass_calls' = ass_calls + 1 /\ segments' = <<>>)
        => ass_path' = ass_path

C17_NeverZeroEvents == [] C17_Events /\ [][C17_Again]_vars

C17_Witness ==
    /\ ass_calls = 2
    /\ Len(segments) = 2
    /\ segments[1] # segments[2]
    /\ Len(ass_path.events) = 2
    /\ ass_path.events[1] # ass_path.events[2]

\* reading a stamp back
IsDigit(ch) == \E d \in 0..9 : Digit(d) = ch
DigitVal(ch) == CHOOSE d \in 0..9 : Digit(d) = ch

RECURSIVE Number(_)
Number(s) ==
    IF s = <<>> THEN 0 ELSE 10 * Number(SubSeq(s, 1, Len(s) - 1)) + DigitVal(s[Len(s)])

\* H:MM:SS.CC with at least one digit for H
Shaped(s) ==
    LET n == Len(s)
    IN  /\ n >= 10
        /\ s[n - 2] = "." /\ s[n - 5] = ":" /\ s[n - 8] = ":"
        /\ \A i \in (1..n) \ {n - 2, n - 5, n - 8} : IsDigit(s[i])

Field(s, from, to) == Number(SubSeq(s, Len(s) - from, Len(s) - to))

\* the time a stamp denotes, in hundredths
StampValue(s) ==
    ((Field(s, Len(s) - 1, 9) * 60 + Field(s, 7, 6)) * 60 + Field(s, 4, 3)) * 100 + Field(s, 1, 0)

Stamp(h, m, sec, c) ==
    <<Digit(h), ":", Digit(m \div 10), Digit(m % 10), ":",
      Digit(sec \div 10), Digit(sec % 10), ".", Digit(c \div 10), Digit(c % 10)>>

\* C18: for every time t >= 0 in whole hundredths of a second _format_time
\* returns H:MM:SS.CC with MM < 60, SS < 60 and CC < 100 that denotes t again;
\* 0.0 gives 0:00:00.00, 1.0 gives 0:00:01.00 and 3661.5 gives 1:01:01.50.
C18_RoundTrip ==
    stamp # NoStamp =>
        /\ Shaped(stamp)
        /\ Field(stamp, 7, 6) < 60
        /\ Field(stamp, 4, 3) < 60
        /\ Field(stamp, 1, 0) < 100
        /\ StampValue(stamp) = seconds
        /\ seconds = 0 => stamp = Stamp(0, 0, 0, 0)
        /\ seconds = 100 => stamp = Stamp(0, 0, 1, 0)
        /\ seconds = 366150 => stamp = Stamp(1, 1, 1, 50)

\* the call t ends in this step while the orchestrator waits for it
Ends(t) == IsWaited(t) /\ threads' = threads \ {t}

\* C19: a transcribe call made with the audio missing or empty, or with
\* whisper not importable, returns [] and does not raise; the orchestrator
\* takes the [] as the words, in developer mode or not, and hands it to
\* generate_ass, which on returning has written the placeholder caption file.
C19_Returned ==
    \A t \in threads :
        (t.stage = "transcribe" /\ Ends(t)
            /\ (~whisper \/ ~NonEmpty(fs[t.dir]["voice.wav"])))
        => result' = Value("empty")

C19_Consumed ==
    seen["transcribe"] = Value("empty") =>
        /\ handled["transcribe"] = "continue"
        /\ words = "empty"
        /\ "generate_ass" \in Invoked \/ pc = "ass_invoke"
        /\ \A t \in threads :
              (t.run = runNo /\ t.stage = "generate_ass") => t.arg = "empty"

C19_Placeholder ==
    \A t \in threads :
        (t.stage = "generate_ass" /\ t.arg = "empty" /\ Ends(t) /\ result'.kind = "value")
        => fs'[t.dir]["subtitles.ass"] = File(t.run, "dummy")

C20_CaptionsDisabled ==
    (runNo > 0 /\ args.no_subtitles) =>
        /\ Invoked \cap Captioning = {}
        /\ "render" \in Invoked => Exists(fs[dir]["subtitles.ass"])
        /\ \A t \in threads : (t.run = runNo /\ t.stage = "render") => t.arg = "None"
        /\ pc = "returned" =>
              /\ Exists(final_video)
              /\ Exists(fs[dir]["subtitles.ass"])

\* the subtitle step's handler substitutes a caption file in this step
Substitutes(s) == handled[s] # "substitute" /\ handled'[s] = "substitute"

\* C21: when transcribe or generate_ass raises or times out, then in developer
\* mode the orchestrator writes a caption track made from the script, one
\* segment per word, and goes on to rendering; without developer mode the
\* failure ends the run.
C21_Substitution ==
    \A s \in Captioning :
        Substitutes(s) =>
            /\ developer_mode
            /\ pc' = "render_init"
            /\ args.script_text # "" => fs'[dir]["subtitles.ass"] = File(runNo, "ass")

C21_Terminal ==
    \A s \in Captioning :
        (seen[s].kind = "exc" /\ ~developer_mode) =>
            /\ handled[s] = "terminal"
            /\ pc \in {"failed", "raised"}

C21_SyntheticCaptions == [] C21_Terminal /\ [][C21_Substitution]_vars

\* C29: when generate has returned False to the orchestrator, the narration
\* step is treated as failed (silence in developer mode, else the run ends),
\* whatever audio an earlier run left in the output directory.
C29_FalseIsFailure ==
    seen["narration"] = Value("False") =>
        handled["narration"] = narration_recovery(developer_mode)

\* str.capitalize() of an engine name
capitalize(e) == IF e = "coqui" THEN "Coqui" ELSE IF e = "elevenlabs" THEN "Elevenlabs" ELSE e

\* run, lines 46-49 and 74: ctx.voice_engine is config.voice_engine, or
\* "coqui" when force_coqui is set; save_metadata and run_summary write it
\* capitalized.
engine_label(v) == capitalize(IF v.force_coqui THEN "coqui" ELSE v.engine)

\* the engine whose synthesis the call ended with
Producer ==
    IF RemoteSucceeded THEN "elevenlabs"
    ELSE IF Count("tts_to_file") > 0 THEN "coqui"
    ELSE "none"

\* C28: the engine label written to metadata.json and run_summary.json names
\* the engine that produced the run's audio: the local engine when the remote
\* one was bypassed or fell back to it, and no engine when generate left no
\* usable audio and the silent placeholder took its place.
C28_EngineLabel ==
    /\ (returned = "True" /\ AudioOk(output_path)) =>
          engine_label(voice) = capitalize(Producer)
    /\ (returned = "False" /\ ~AudioOk(output_path) /\ developer_mode) =>
          engine_label(voice) \notin {capitalize(e) : e \in Engines}

\* the folders of the parent that hold videos
WithVideos == {i \in 1..Len(root.listing) : root.listing[i].videos}
RainFolders == {i \in WithVideos : lower(root.listing[i].name) = "rain"}
NameMatches == {i \in WithVideos : lower(root.listing[i].name) = lower(folder)}
SubdirVideos == \E i \in 1..Len(subdirs) : subdirs[i]
ReturnedFrom(idx) ==
    /\ bg_folder.kind = "return" /\ bg_folder.where = "root"
    /\ \E i \in idx : root.listing[i].name = bg_folder.name

C27_NameMatchFirst ==
    (bg_folder # NotResolved /\ ~OwnVideos(folder, root) /\ ~SubdirVideos /\ NameMatches # {}) =>
        ReturnedFrom(NameMatches)

\* C30: a returned folder holds videos, the requested folder is returned as
\* it is when it holds videos, and _resolve_folder raises only when neither
\* the requested folder nor a subfolder of it nor any folder of the parent
\* holds videos.
C30_SoundAndComplete ==
    /\ bg_folder.kind = "return" =>
          CASE bg_folder.where = "requested" -> OwnVideos(folder, root) /\ bg_folder.name = folder
            [] bg_folder.where = "subdir" -> SubdirVideos
            [] OTHER -> ReturnedFrom(WithVideos)
    /\ (bg_folder # NotResolved /\ OwnVideos(folder, root)) =>
          bg_folder = Returns("requested", folder)
    /\ bg_folder.kind = "raise" => (WithVideos = {} /\ ~SubdirVideos)

C30_Witness ==
    /\ Len(root.listing) = 3
    /\ \A i \in 1..3 : lower(root.listing[i].name) \notin {"rain", "minecraft"} \/ ~root.listing[i].videos
    /\ WithVideos # {}
    /\ bg_folder.kind = "return"

\* what render rejects before any process is started
BadDestination == lower(Suffix(render_args.output)) # ".mp4"
BadAudio == render_args.audio \in {"missing", "corrupt"}
MissingClip == render_args.intro = "missing" \/ render_args.outro = "missing"
Concatenates == render_args.intro # "none" \/ render_args.outro # "none"
Pieces(argv) == UNION {{argv[i][j] : j \in 1..Len(argv[i])} : i \in 2..Len(argv)}
Options(argv) == {i \in 2..Len(argv) : argv[i] \in {<<"-filter_complex">>, <<"-vf">>}}
RenderFailed == rendered \notin {"none", "returned"}

\* C22: with a destination not ending in .mp4, an audio file that is missing
\* or that wave.open cannot read, or a given intro or outro that is missing,
\* render starts no process and ends by raising; a caption path that is given
\* but missing raises nothing: the command is built, without captions.
C22_ValidationFirst ==
    /\ (rpc # "idle" /\ (BadDestination \/ BadAudio \/ MissingClip)) =>
          /\ processes = <<>> /\ cmd = <<>>
          /\ rpc \in {"validate", "done"}
          /\ rpc = "done" => RenderFailed
    /\ (render_args.subtitles = "missing" /\ validate(render_args) = "ok") =>
          /\ rpc # "validate" => cmd # <<>> \/ rpc = "build"
          /\ cmd # <<>> => Pieces(cmd) \cap {"subtitles='", "[vsubs]"} = {}
          /\ rpc = "done" => processes # <<>>

C22_Witness ==
    /\ render_args.subtitles = "missing"
    /\ render_args.watermark
    /\ render_args.intro = "present"
    /\ Len(processes) = 2
    /\ rendered = "returned"

\* C23: when render has returned normally, with or without intro and outro,
\* the destination exists and is non-empty; a process that exits non-zero, or
\* that exits zero leaving its output absent or empty, makes render raise.
C23_Postcondition ==
    /\ rendered = "returned" =>
          /\ out_files.dest = "video"
          /\ \A i \in 1..Len(processes) : processes[i].rc = 0
    /\ (rpc = "done" /\ \E i \in 1..Len(processes) : processes[i].rc # 0) => RenderFailed
    /\ (rpc = "done" /\ processes # <<>> /\ out_files.dest # "video") => RenderFailed

\* the -filter_complex graph burns the captions into [0:v] as [vsubs] and
\* overlays the watermark on [vsubs]
CaptionsThenWatermark(g) ==
    \E i, j \in 1..Len(g) :
        /\ i < j
        /\ g[i] = "subtitles='" /\ i > 1 /\ g[i - 1] = "[0:v]"
        /\ \E k \in i..j : g[k] = "[vsubs]" /\ g[k - 1] = "'"
        /\ g[j] = "overlay=W-w-10:H-h-10" /\ j > 2 /\ g[j - 2] = "[vsubs]" /\ g[j - 1] = "[wm]"

C25_TwoPasses ==
    /\ (cmd # <<>> /\ Concatenates) =>
          /\ cmd[Len(cmd)] = as_posix(with_name(OutputPath(render_args), "_main.mp4"))
          /\ cmd[Len(cmd)] # as_posix(OutputPath(render_args))
          /\ (Len(processes) = 1 /\ rpc # "done") => out_files.dest = "absent"
          /\ \A i \in 1..Len(processes) : processes[i].pass = "concat" =>
                /\ i = 2
                /\ concat_list(render_args) =
                      (IF render_args.intro = "present" THEN <<as_posix(IntroPath)>> ELSE <<>>)
                      \o <<cmd[Len(cmd)]>>
                      \o (IF render_args.outro = "present" THEN <<as_posix(OutroPath)>> ELSE <<>>)
                /\ processes[i].argv[Len(processes[i].argv)] = as_posix(OutputPath(render_args))
          /\ (rpc = "done" /\ Len(processes) = 2) =>
                out_files.main = "absent" /\ out_files.concat = "absent"
    /\ (cmd # <<>> /\ ~Concatenates) =>
          /\ cmd[Len(cmd)] = as_posix(OutputPath(render_args))
          /\ Len(processes) <= 1
          /\ out_files.main = "absent" /\ out_files.concat = "absent"

====
